---- MODULE Spec2Model ----
(***************************************************************************)
(* NTFS junction operations of src/src/internals.rs: create, delete,       *)
(* exists and get_target over a filesystem of directory entries, with the  *)
(* reparse-data buffer that create encodes and get_target decodes.         *)
(*                                                                         *)
(* A UTF-16 string (Vec<u16>, &[u16]) is kept run-length encoded: a        *)
(* sequence of <<unit, count>> runs, count > 0, adjacent runs of distinct  *)
(* units.  The encoding is canonical, so equality of encodings is equality *)
(* of the strings, and targets of several thousand units stay small.       *)
(***************************************************************************)
EXTENDS Integers, Sequences, FiniteSets, TLC

\* ------------------------------------------------------------------------
\* Bounds of the model (not program constants)
\* ------------------------------------------------------------------------

\* Target lengths are taken within Slack units of each length threshold.
Slack == 1

\* ------------------------------------------------------------------------
\* u16 strings, run-length encoded
\* ------------------------------------------------------------------------

RECURSIVE WNorm(_)
WNorm(w) ==
    IF w = <<>> THEN <<>>
    ELSE IF w[1][2] = 0 THEN WNorm(Tail(w))
    ELSE LET r == WNorm(Tail(w)) IN
         IF r # <<>> /\ r[1][1] = w[1][1]
         THEN << <<w[1][1], w[1][2] + r[1][2]>> >> \o Tail(r)
         ELSE << w[1] >> \o r

\* The string of the units of the plain sequence s.
WLit(s) == WNorm([i \in 1..Len(s) |-> <<s[i], 1>>])

\* n copies of unit u.
WRep(u, n) == WNorm(<< <<u, n>> >>)

\* slice.len()
RECURSIVE WLen(_)
WLen(w) == IF w = <<>> THEN 0 ELSE w[1][2] + WLen(Tail(w))

\* Concatenation: what successive copy_nonoverlapping calls lay down.
WCat(a, b) == WNorm(a \o b)

\* w[k..]
RECURSIVE WDrop(_, _)
WDrop(w, k) ==
    IF k <= 0 \/ w = <<>> THEN w
    ELSE IF w[1][2] <= k THEN WDrop(Tail(w), k - w[1][2])
    ELSE << <<w[1][1], w[1][2] - k>> >> \o Tail(w)

\* w[..k] (shorter when w has fewer than k units)
RECURSIVE WTake(_, _)
WTake(w, k) ==
    IF k <= 0 \/ w = <<>> THEN <<>>
    ELSE IF w[1][2] <= k THEN << w[1] >> \o WTake(Tail(w), k - w[1][2])
    ELSE << <<w[1][1], k>> >>

\* slice::from_raw_parts(buf.add(offset), len)
from_raw_parts(buf, offset, len) == WTake(WDrop(buf, offset), len)

\* slice.starts_with(prefix)
starts_with(w, prefix) ==
    /\ WLen(w) >= WLen(prefix)
    /\ WTake(w, WLen(prefix)) = prefix

\* slice.strip_prefix(prefix).unwrap_or(slice)
strip_prefix(w, prefix) ==
    IF starts_with(w, prefix) THEN WDrop(w, WLen(prefix)) ELSE w

\* True when the unit u occurs in w.
WHas(w, u) == \E i \in 1..Len(w) : w[i][1] = u

\* ------------------------------------------------------------------------
\* Constants
\* ------------------------------------------------------------------------

BACKSLASH == 92
QUESTION == 63
NUL == 0

\* br"\??\"
NT_PREFIX == WLit(<<BACKSLASH, QUESTION, QUESTION, BACKSLASH>>)
\* br"\\?\"
VERBATIM_PREFIX == WLit(<<BACKSLASH, BACKSLASH, QUESTION, BACKSLASH>>)

WCHAR_SIZE == 2
UNICODE_NULL_SIZE == WCHAR_SIZE
U16_MAX == 65535

MAXIMUM_REPARSE_DATA_BUFFER_SIZE == 16384
REPARSE_DATA_BUFFER_HEADER_SIZE == 8
MOUNT_POINT_REPARSE_BUFFER_HEADER_SIZE == 8
\* Reparse tags are compared for equality only.
IO_REPARSE_TAG_MOUNT_POINT == "IO_REPARSE_TAG_MOUNT_POINT"
IO_REPARSE_TAG_SYMLINK == "IO_REPARSE_TAG_SYMLINK"
NO_REPARSE_TAG == "none"

MAX_PATH_BUFFER ==
    MAXIMUM_REPARSE_DATA_BUFFER_SIZE
      - REPARSE_DATA_BUFFER_HEADER_SIZE
      - MOUNT_POINT_REPARSE_BUFFER_HEADER_SIZE

\* ------------------------------------------------------------------------
\* u16 arithmetic
\* ------------------------------------------------------------------------

Min(a, b) == IF a < b THEN a ELSE b

\* Mutant of saturating_add: the sum wraps at 16 bits.
saturating_add_wraps(a, b) == (a + b) % (U16_MAX + 1)

\* u16::saturating_add
saturating_add(a, b) == IF a + b > U16_MAX THEN U16_MAX ELSE a + b

\* Mutant of saturating_mul: the product wraps at 16 bits.
saturating_mul_wraps(a, b) == (a * b) % (U16_MAX + 1)

\* u16::saturating_mul
saturating_mul(a, b) == IF a * b > U16_MAX THEN U16_MAX ELSE a * b

\* u16 `+` and wrapping_add as a release build computes them
wrapping_add(a, b) == (a + b) % (U16_MAX + 1)

\* ------------------------------------------------------------------------
\* create: the reparse-data encoder
\* ------------------------------------------------------------------------

\* NT_PREFIX.len().saturating_add(target.len()) is usize arithmetic: it cannot
\* saturate for a string that fits in memory.
substitute_len_in_bytes(target) ==
    LET len == WLen(NT_PREFIX) + WLen(target)
        min_len == Min(len, U16_MAX)
    IN  saturating_mul(min_len, WCHAR_SIZE)

print_name_len_in_bytes(target) ==
    LET min_len == Min(WLen(target), U16_MAX)
    IN  saturating_mul(min_len, WCHAR_SIZE)

total_path_buffer(target) ==
    saturating_add(
        saturating_add(
            saturating_add(substitute_len_in_bytes(target), UNICODE_NULL_SIZE),
            print_name_len_in_bytes(target)),
        UNICODE_NULL_SIZE)

\* if total_path_buffer > MAX_PATH_BUFFER { return Err(InvalidInput) }
target_too_long(target) == total_path_buffer(target) > MAX_PATH_BUFFER

\* The units written into PathBuffer, in order.
path_buffer(target) ==
    WCat(WCat(WCat(WCat(NT_PREFIX, target), WRep(NUL, 1)), target), WRep(NUL, 1))

\* let size = MOUNT_POINT_REPARSE_BUFFER_HEADER_SIZE + ... (unchecked u16 `+`)
reparse_data_length(target) ==
    wrapping_add(
        wrapping_add(
            wrapping_add(
                wrapping_add(MOUNT_POINT_REPARSE_BUFFER_HEADER_SIZE,
                             substitute_len_in_bytes(target)),
                UNICODE_NULL_SIZE),
            print_name_len_in_bytes(target)),
        UNICODE_NULL_SIZE)

\* size.wrapping_add(REPARSE_DATA_BUFFER_HEADER_SIZE)
in_buffer_size(target) ==
    wrapping_add(reparse_data_length(target), REPARSE_DATA_BUFFER_HEADER_SIZE)

\* The ReparseDataBuffer create fills in for a normalized target.
encode_rdb(target) ==
    [ ReparseTag           |-> IO_REPARSE_TAG_MOUNT_POINT,
      ReparseDataLength    |-> reparse_data_length(target),
      Reserved             |-> 0,
      SubstituteNameOffset |-> 0,
      SubstituteNameLength |-> substitute_len_in_bytes(target),
      PrintNameOffset      |-> wrapping_add(substitute_len_in_bytes(target),
                                            UNICODE_NULL_SIZE),
      PrintNameLength      |-> print_name_len_in_bytes(target),
      PathBuffer           |-> path_buffer(target) ]

\* ------------------------------------------------------------------------
\* Inputs
\* ------------------------------------------------------------------------

\* Junction paths the operations are called on.
Paths == {"J"}

\* "C:\"
DRIVE == WLit(<<67, 58, BACKSLASH>>)

\* The absolute path C:\xx...x of n units (n >= 3).
Plain(n) == WCat(DRIVE, WRep(120, n - 3))

\* The longest normalized target whose two names and terminators fit.
LimitLen ==
    (MAX_PATH_BUFFER - 2 * UNICODE_NULL_SIZE - WLen(NT_PREFIX) * WCHAR_SIZE)
        \div (2 * WCHAR_SIZE)

Lens ==
    {4} \cup ((LimitLen - Slack)..(LimitLen + Slack))
        \cup {2^14, 2^15 - 4, 2^15, 2^16 - 4, 2^16 + Slack}

\* A path with an interior NUL, which path resolution rejects.
BadPath == WCat(WCat(Plain(4), WRep(NUL, 1)), WRep(120, 1))

\* Targets handed to create.
Targets ==
    {Plain(n) : n \in Lens}
        \cup {WCat(VERBATIM_PREFIX, Plain(4)),
              WCat(VERBATIM_PREFIX, Plain(LimitLen)),
              WCat(NT_PREFIX, Plain(4)),
              VERBATIM_PREFIX,
              BadPath}

\* Directories that may be missing from the volume.
MissingCandidates == {Plain(4), WCat(NT_PREFIX, Plain(4))}

\* ------------------------------------------------------------------------
\* State
\* ------------------------------------------------------------------------

VARIABLES
    fs,        \* fs[p]: the directory entry at path p
    access,    \* access[p]: "full", or "read" when p cannot be opened for writing
    volumeOk,  \* the volume supports reparse-point control calls
    missing,   \* normalized targets that name no existing directory
    handles,   \* handles the library holds open
    origin,    \* origin[p]: "created" / "deleted" while p is as create / delete left it
    given,     \* given[p]: the target passed to the create that made p
    last       \* the last call: its inputs, result and the OS steps it took

vars == <<fs, access, volumeOk, missing, handles, origin, given, last>>

NoData ==
    [ ReparseTag |-> NO_REPARSE_TAG, ReparseDataLength |-> 0, Reserved |-> 0,
      SubstituteNameOffset |-> 0, SubstituteNameLength |-> 0,
      PrintNameOffset |-> 0, PrintNameLength |-> 0, PathBuffer |-> <<>> ]

Absent == [kind |-> "absent", rdb |-> NoData]
PlainDir == [kind |-> "dir", rdb |-> NoData]

\* A symbolic link made by another tool: a reparse point with another tag.
ForeignLink ==
    [kind |-> "reparse",
     rdb |-> [encode_rdb(Plain(4)) EXCEPT !.ReparseTag = IO_REPARSE_TAG_SYMLINK]]

Ok == [kind |-> "Ok", flag |-> FALSE, path |-> <<>>]
OkBool(b) == [kind |-> "Ok", flag |-> b, path |-> <<>>]
OkPath(w) == [kind |-> "Ok", flag |-> FALSE, path |-> w]
Err(k) == [kind |-> k, flag |-> FALSE, path |-> <<>>]

NoSend == [rdb |-> NoData, size |-> 0]

Init ==
    /\ fs \in [Paths -> {Absent, PlainDir, ForeignLink}]
    /\ access \in [Paths -> {"full", "read"}]
    /\ volumeOk \in BOOLEAN
    /\ missing \in SUBSET MissingCandidates
    /\ \A p \in Paths : fs[p].kind = "reparse" => volumeOk
    /\ handles = 0
    /\ origin = [p \in Paths |-> "other"]
    /\ given = [p \in Paths |-> <<>>]
    /\ last = [op |-> "none", path |-> "J", target |-> <<>>, res |-> Ok,
               calls |-> <<>>, opened |-> 0, held |-> 0, pre |-> Absent,
               sent |-> NoSend, norm |-> <<>>, preOrigin |-> "other"]

\* ------------------------------------------------------------------------
\* Collaborators: path resolution, the standard library, the control calls
\* ------------------------------------------------------------------------

\* helpers::get_full_path.  The targets of the model are absolute and already
\* in canonical form, so resolution returns them unchanged; it fails on a
\* path it cannot resolve.
get_full_path(T) == [ok |-> ~WHas(T, NUL), path |-> T]

\* The substitute name the filesystem follows when it traverses a reparse point.
substitute_name(rdb) ==
    from_raw_parts(rdb.PathBuffer,
                   rdb.SubstituteNameOffset \div WCHAR_SIZE,
                   rdb.SubstituteNameLength \div WCHAR_SIZE)

\* Mutant of path_exists: the existence test is dropped.
path_exists_unchecked(fsv, p) == TRUE

\* Path::exists: the metadata query traverses a reparse point, so a junction
\* whose target directory is missing does not "exist".
path_exists(fsv, p) ==
    /\ fsv[p].kind # "absent"
    /\ fsv[p].kind = "reparse" =>
           strip_prefix(substitute_name(fsv[p].rdb), NT_PREFIX) \notin missing

\* Mutant of create_dir: fs::create_dir_all, which accepts an existing entry.
create_dir_all(fsv, p) ==
    IF fsv[p].kind # "absent"
    THEN [err |-> "Ok", fs |-> fsv]
    ELSE [err |-> "Ok", fs |-> [fsv EXCEPT ![p] = PlainDir]]

\* fs::create_dir
create_dir(fsv, p) ==
    IF fsv[p].kind # "absent"
    THEN [err |-> "AlreadyExists", fs |-> fsv]
    ELSE [err |-> "Ok", fs |-> [fsv EXCEPT ![p] = PlainDir]]

\* helpers::open_reparse_point(path, write): opens the entry itself, never
\* its target.
open_reparse_point(fsv, p, write) ==
    IF fsv[p].kind = "absent" THEN "NotFound"
    ELSE IF write /\ access[p] # "full" THEN "IoFailure"
    ELSE "Ok"

\* helpers::set_reparse_point(handle, rdb, in_buffer_size): the filesystem
\* keeps the first in_buffer_size bytes of the buffer.
set_reparse_point(fsv, p, rdb, size) ==
    IF ~volumeOk
    THEN [err |-> "IoFailure", fs |-> fsv]
    ELSE LET units == (size - REPARSE_DATA_BUFFER_HEADER_SIZE
                            - MOUNT_POINT_REPARSE_BUFFER_HEADER_SIZE) \div WCHAR_SIZE
             kept == [rdb EXCEPT !.PathBuffer = WTake(rdb.PathBuffer, units)]
         IN  [err |-> "Ok",
              fs |-> [fsv EXCEPT ![p] = [kind |-> "reparse", rdb |-> kept]]]

\* helpers::delete_reparse_point(handle): removes the reparse data, whatever
\* its tag, and leaves the directory.
delete_reparse_point(fsv, p) ==
    IF ~volumeOk
    THEN [err |-> "IoFailure", fs |-> fsv]
    ELSE [err |-> "Ok", fs |-> [fsv EXCEPT ![p] = PlainDir]]

\* helpers::get_reparse_data_point(handle, rdb): fills the buffer with the
\* entry's reparse data; a plain directory yields data with no mount-point tag.
get_reparse_data_point(fsv, p) ==
    IF ~volumeOk
    THEN [err |-> "IoFailure", rdb |-> NoData]
    ELSE [err |-> "Ok", rdb |-> fsv[p].rdb]

\* Mutant of drop_file: the handle leaks when the length check fails.
drop_file_leaks(opened, res) == IF res.kind = "InputTooLong" THEN 0 ELSE opened

\* `file` goes out of scope: the handles released when a call that opened
\* `opened` handles returns `res`.
drop_file(opened, res) == opened

\* ------------------------------------------------------------------------
\* The four operations, each as the outcome of one whole call
\* ------------------------------------------------------------------------

Outcome(res, calls, opened, fsv, sent, norm) ==
    [res |-> res, calls |-> calls, opened |-> opened, fs |-> fsv,
     sent |-> sent, norm |-> norm]

\* pub fn create(target, junction)
create_call(T, p) ==
    LET full == get_full_path(T)
        target == strip_prefix(full.path, VERBATIM_PREFIX)
        mk == create_dir(fs, p)
        opn == open_reparse_point(mk.fs, p, TRUE)
        rdb == encode_rdb(target)
        size == in_buffer_size(target)
        sent == [rdb |-> rdb, size |-> size]
        set == set_reparse_point(mk.fs, p, rdb, size)
    IN  IF ~full.ok
        THEN Outcome(Err("NormalizeFailed"), <<"get_full_path">>, 0, fs, NoSend, <<>>)
        ELSE IF mk.err # "Ok"
        THEN Outcome(Err(mk.err), <<"get_full_path", "create_dir">>, 0, fs,
                     NoSend, target)
        ELSE IF opn # "Ok"
        THEN Outcome(Err(opn),
                     <<"get_full_path", "create_dir", "open_reparse_point">>,
                     0, mk.fs, NoSend, target)
        ELSE IF target_too_long(target)
        THEN Outcome(Err("InputTooLong"),
                     <<"get_full_path", "create_dir", "open_reparse_point">>,
                     1, mk.fs, NoSend, target)
        ELSE Outcome(IF set.err = "Ok" THEN Ok ELSE Err(set.err),
                     <<"get_full_path", "create_dir", "open_reparse_point",
                       "set_reparse_point">>,
                     1, set.fs, sent, target)

\* pub fn delete(junction)
delete_call(p) ==
    LET opn == open_reparse_point(fs, p, TRUE)
        del == delete_reparse_point(fs, p)
    IN  IF opn # "Ok"
        THEN Outcome(Err(opn), <<"open_reparse_point">>, 0, fs, NoSend, <<>>)
        ELSE Outcome(IF del.err = "Ok" THEN Ok ELSE Err(del.err),
                     <<"open_reparse_point", "delete_reparse_point">>,
                     1, del.fs, NoSend, <<>>)

\* Mutant of exists_tag_check: any fetched data counts as a junction.
exists_tag_unchecked(rdb) == TRUE

\* Ok(rdb.ReparseTag == c::IO_REPARSE_TAG_MOUNT_POINT)
exists_tag_check(rdb) == rdb.ReparseTag = IO_REPARSE_TAG_MOUNT_POINT

\* pub fn exists(junction)
exists_call(p) ==
    LET opn == open_reparse_point(fs, p, FALSE)
        got == get_reparse_data_point(fs, p)
    IN  IF ~path_exists(fs, p)
        THEN Outcome(OkBool(FALSE), <<"Path::exists">>, 0, fs, NoSend, <<>>)
        ELSE IF opn # "Ok"
        THEN Outcome(Err(opn), <<"Path::exists", "open_reparse_point">>, 0, fs,
                     NoSend, <<>>)
        ELSE IF got.err # "Ok"
        THEN Outcome(Err(got.err),
                     <<"Path::exists", "open_reparse_point", "get_reparse_data_point">>,
                     1, fs, NoSend, <<>>)
        ELSE Outcome(OkBool(exists_tag_check(got.rdb)),
                     <<"Path::exists", "open_reparse_point", "get_reparse_data_point">>,
                     1, fs, NoSend, <<>>)

\* Mutant of get_target_tag_check: any reparse tag is decoded.
get_target_tag_any(rdb) == rdb.ReparseTag # NO_REPARSE_TAG

\* if rdb.ReparseTag == c::IO_REPARSE_TAG_MOUNT_POINT
get_target_tag_check(rdb) == rdb.ReparseTag = IO_REPARSE_TAG_MOUNT_POINT

\* Mutant of decode_target: every leading NT_PREFIX is stripped.
decode_target_strips_all(rdb) ==
    LET offset == rdb.SubstituteNameOffset \div WCHAR_SIZE
        len == rdb.SubstituteNameLength \div WCHAR_SIZE
        wide == from_raw_parts(rdb.PathBuffer, offset, len)
    IN  strip_prefix(strip_prefix(wide, NT_PREFIX), NT_PREFIX)

\* The decode branch of get_target: the substitute name without NT_PREFIX.
decode_target(rdb) ==
    LET offset == rdb.SubstituteNameOffset \div WCHAR_SIZE
        len == rdb.SubstituteNameLength \div WCHAR_SIZE
        wide == from_raw_parts(rdb.PathBuffer, offset, len)
    IN  strip_prefix(wide, NT_PREFIX)

\* pub fn get_target(junction)
get_target_call(p) ==
    LET opn == open_reparse_point(fs, p, FALSE)
        got == get_reparse_data_point(fs, p)
    IN  IF ~path_exists(fs, p)
        THEN Outcome(Err("NotFound"), <<"Path::exists">>, 0, fs, NoSend, <<>>)
        ELSE IF opn # "Ok"
        THEN Outcome(Err(opn), <<"Path::exists", "open_reparse_point">>, 0, fs,
                     NoSend, <<>>)
        ELSE IF got.err # "Ok"
        THEN Outcome(Err(got.err),
                     <<"Path::exists", "open_reparse_point", "get_reparse_data_point">>,
                     1, fs, NoSend, <<>>)
        ELSE IF get_target_tag_check(got.rdb)
        THEN Outcome(OkPath(decode_target(got.rdb)),
                     <<"Path::exists", "open_reparse_point", "get_reparse_data_point">>,
                     1, fs, NoSend, <<>>)
        ELSE Outcome(Err("NotAJunction"),
                     <<"Path::exists", "open_reparse_point", "get_reparse_data_point">>,
                     1, fs, NoSend, <<>>)

\* ------------------------------------------------------------------------
\* Actions
\* ------------------------------------------------------------------------

Record(op, p, T, out) ==
    /\ fs' = out.fs
    /\ handles' = handles + out.opened - drop_file(out.opened, out.res)
    /\ last' = [op |-> op, path |-> p, target |-> T, res |-> out.res,
                calls |-> out.calls, opened |-> out.opened,
                held |-> handles + out.opened, pre |-> fs[p],
                sent |-> out.sent, norm |-> out.norm,
                preOrigin |-> origin[p]]
    /\ UNCHANGED <<access, volumeOk, missing>>

Create(T, p) ==
    LET out == create_call(T, p) IN
    /\ Record("create", p, T, out)
    /\ origin' = [origin EXCEPT ![p] =
                     IF out.res.kind = "Ok" THEN "created"
                     ELSE IF out.fs[p] = fs[p] THEN @ ELSE "other"]
    /\ given' = [given EXCEPT ![p] =
                     IF out.res.kind = "Ok" THEN T
                     ELSE IF out.fs[p] = fs[p] THEN @ ELSE <<>>]

Delete(p) ==
    LET out == delete_call(p) IN
    /\ Record("delete", p, <<>>, out)
    /\ origin' = [origin EXCEPT ![p] =
                     IF out.res.kind # "Ok" THEN @
                     ELSE IF @ = "created" THEN "deleted"
                     ELSE IF @ = "deleted" THEN @ ELSE "other"]
    /\ given' = [given EXCEPT ![p] = IF out.res.kind = "Ok" THEN <<>> ELSE @]

Exists(p) ==
    /\ Record("exists", p, <<>>, exists_call(p))
    /\ UNCHANGED <<origin, given>>

GetTarget(p) ==
    /\ Record("get_target", p, <<>>, get_target_call(p))
    /\ UNCHANGED <<origin, given>>

\* The caller removes the entry at p (fs::remove_dir), as it must after a
\* failed create.
RemoveDir(p) ==
    /\ fs[p].kind # "absent"
    /\ Record("remove_dir", p, <<>>,
              Outcome(Ok, <<"remove_dir">>, 0, [fs EXCEPT ![p] = Absent],
                      NoSend, <<>>))
    /\ origin' = [origin EXCEPT ![p] = "other"]
    /\ given' = [given EXCEPT ![p] = <<>>]

Next ==
    \/ \E T \in Targets, p \in Paths : Create(T, p)
    \/ \E p \in Paths : Delete(p)
    \/ \E p \in Paths : Exists(p)
    \/ \E p \in Paths : GetTarget(p)
    \/ \E p \in Paths : RemoveDir(p)

Spec == Init /\ [][Next]_vars

\* ------------------------------------------------------------------------
\* Properties
\* ------------------------------------------------------------------------

IsJunction(e) ==
    e.kind = "reparse" /\ e.rdb.ReparseTag = IO_REPARSE_TAG_MOUNT_POINT

\* An entry that exists and is not a mount-point junction.
NonJunction(e) == e.kind # "absent" /\ ~IsJunction(e)

\* T without one leading extended-length prefix.
WithoutVerbatim(T) ==
    IF WLen(T) >= 4 /\ WTake(T, 4) = VERBATIM_PREFIX THEN WDrop(T, 4) ELSE T

\* The call recorded in `last` is op on a path that is as a successful
\* create left it.
AfterCreate(op) == last.op = op /\ origin[last.path] = "created"

RoundTripHolds ==
    /\ AfterCreate("exists") => last.res = OkBool(TRUE)
    /\ AfterCreate("get_target") =>
           last.res = OkPath(WithoutVerbatim(given[last.path]))

print_name(rdb) ==
    from_raw_parts(rdb.PathBuffer,
                   rdb.PrintNameOffset \div WCHAR_SIZE,
                   rdb.PrintNameLength \div WCHAR_SIZE)

\* C2: after every successful create the stored reparse data has
\* PrintNameLength > 0 and its print name equals what get_target decodes.
C2_PrintNamePopulated ==
    \A p \in Paths :
        origin[p] = "created" =>
            /\ fs[p].rdb.PrintNameLength > 0
            /\ print_name(fs[p].rdb) = decode_target(fs[p].rdb)

C4_AbsentPath ==
    (last.op \in {"exists", "get_target"} /\ last.pre.kind = "absent") =>
        /\ last.op = "exists" => last.res = OkBool(FALSE)
        /\ last.op = "get_target" => last.res = Err("NotFound")
        /\ last.opened = 0
        /\ \A i \in 1..Len(last.calls) :
               last.calls[i] \notin {"open_reparse_point", "get_reparse_data_point"}
        /\ fs[last.path] = last.pre

\* C4 witness: get_target on an absent path.
C4_Witness ==
    /\ last.op = "get_target"
    /\ last.pre.kind = "absent"
    /\ last.res = Err("NotFound")

\* C5: when create fails with input-too-long, no step that touches the
\* filesystem has run: no directory entry was created, no handle opened, no
\* reparse data sent.
C5_TooLongBeforeAnyOsCall ==
    (last.op = "create" /\ last.res = Err("InputTooLong")) =>
        /\ \A i \in 1..Len(last.calls) :
               last.calls[i] \notin {"create_dir", "open_reparse_point",
                                     "set_reparse_point"}
        /\ last.opened = 0
        /\ fs[last.path] = last.pre
        /\ last.sent = NoSend

FailedCreate == last.op = "create" /\ last.res.kind # "Ok"

\* What C6 says of a failed create, but for the error an existing entry gets.
FailedCreateFrame ==
    /\ (last.op = "create" /\ last.pre.kind # "absent") =>
           /\ last.res.kind # "Ok"
           /\ fs[last.path] = last.pre
    /\ FailedCreate => (fs[last.path] = last.pre \/ fs[last.path] = PlainDir)
    /\ (FailedCreate /\ last.pre.kind = "absent"
            /\ last.res = Err("NormalizeFailed")) => fs[last.path] = Absent
    /\ (FailedCreate /\ last.pre.kind = "absent"
            /\ last.res.kind \in {"InputTooLong", "IoFailure"}) =>
           fs[last.path] = PlainDir
    /\ (last.op = "create" /\ IsJunction(fs[last.path]) /\ ~IsJunction(last.pre))
           => last.res = Ok

\* C6 as stated: a failed create installs nothing and alters no existing
\* entry; on an existing junction_path it fails with already-exists.
C6_ExistingAlwaysAlreadyExists ==
    /\ FailedCreateFrame
    /\ (last.op = "create" /\ last.pre.kind # "absent") =>
           last.res = Err("AlreadyExists")

\* C6 amended: as stated, except that on an existing junction_path create
\* fails with already-exists only when the target could be normalized; when
\* normalization fails, it fails with that error, the entry again unchanged.
C6_FailedCreateFrame ==
    /\ FailedCreateFrame
    /\ (last.op = "create" /\ last.pre.kind # "absent") =>
           last.res = IF get_full_path(last.target).ok
                      THEN Err("AlreadyExists") ELSE Err("NormalizeFailed")

\* C6 witness: an oversized target leaves a bare directory behind.
C6_Witness ==
    /\ last.op = "create"
    /\ last.res = Err("InputTooLong")
    /\ last.pre = Absent
    /\ fs[last.path] = PlainDir

\* C7: delete of a junction made by a successful create succeeds and removes
\* the reparse point, and exists then returns Ok(false).
C7_DeleteAfterCreate ==
    /\ (last.op = "delete" /\ last.preOrigin = "created") =>
           /\ last.res = Ok
           /\ fs[last.path].kind # "reparse"
    /\ (last.op = "exists" /\ origin[last.path] = "deleted") =>
           last.res = OkBool(FALSE)

\* C7 witness: exists after create and delete.
C7_Witness ==
    /\ last.op = "exists"
    /\ origin[last.path] = "deleted"
    /\ last.res = OkBool(FALSE)

Called(name) == \E i \in 1..Len(last.calls) : last.calls[i] = name

\* The exit paths C8 lists: success, input-too-long, a failed fetch or
\* install, not-a-junction.
ListedExit ==
    \/ last.op \in {"create", "delete", "get_target"} /\ last.res.kind = "Ok"
    \/ last.op = "exists" /\ last.res = OkBool(TRUE)
    \/ last.res.kind \in {"InputTooLong", "NotAJunction"}
    \/ last.res.kind = "IoFailure"
         /\ (Called("set_reparse_point") \/ Called("get_reparse_data_point")
               \/ Called("delete_reparse_point"))

C9_HeaderExact ==
    (last.op = "create" /\ last.sent # NoSend) =>
        LET n == WLen(last.norm)
            r == last.sent.rdb
        IN  /\ r.ReparseTag = IO_REPARSE_TAG_MOUNT_POINT
            /\ r.Reserved = 0
            /\ r.SubstituteNameOffset = 0
            /\ r.SubstituteNameLength = 2 * (n + 4)
            /\ r.PrintNameOffset = 2 * (n + 4) + 2
            /\ r.PrintNameLength = 2 * n
            /\ r.ReparseDataLength = 8 + 2 * (n + 4) + 2 + 2 * n + 2
            /\ last.sent.size = 8 + 2 * (n + 4) + 2 + 2 * n + 2 + 8
            /\ r.SubstituteNameLength % 2 = 0
            /\ r.PrintNameLength % 2 = 0
            /\ r.ReparseDataLength % 2 = 0
            /\ last.sent.size <= MAXIMUM_REPARSE_DATA_BUFFER_SIZE

\* C9 witness: the longest accepted target was encoded and sent.
C9_Witness ==
    /\ last.op = "create"
    /\ last.sent # NoSend
    /\ WLen(last.norm) = LimitLen
    /\ last.sent.size = MAXIMUM_REPARSE_DATA_BUFFER_SIZE

\* The create recorded in `last` reached its length check.
ReachedLengthCheck == last.op = "create" /\ last.opened = 1

\* C10 as stated: create fails with input-too-long exactly when sub-header +
\* substitute-name bytes + 2 + print-name bytes + 2 exceeds the maximum
\* buffer size minus the two fixed headers.
C10_ThresholdWithSubHeader ==
    ReachedLengthCheck =>
        LET n == WLen(last.norm) IN
        (last.res = Err("InputTooLong")) <=>
            (MOUNT_POINT_REPARSE_BUFFER_HEADER_SIZE
                 + 2 * (n + 4) + 2 + 2 * n + 2 > MAX_PATH_BUFFER)

\* C10 amended: a create that reaches its length check fails with
\* input-too-long exactly when substitute-name bytes + 2 + print-name bytes
\* + 2, without the sub-header, exceeds the maximum buffer size minus the two
\* fixed headers, for every target length including those past 2^15 and 2^16.
C10_Threshold ==
    ReachedLengthCheck =>
        LET n == WLen(last.norm) IN
        (last.res = Err("InputTooLong")) <=>
            (2 * (n + 4) + 2 + 2 * n + 2 > MAX_PATH_BUFFER)

\* C10 witness: the first length past the limit is rejected.
C10_Witness ==
    /\ ReachedLengthCheck
    /\ WLen(last.norm) = LimitLen + 1
    /\ last.res = Err("InputTooLong")

====
